---- MODULE Spec2Model ----
(***************************************************************************)
(* A model of the outlines model adapters: the TransformersVision model    *)
(* and its type adapter (outlines/models/transformers_vision.py), the      *)
(* pattern combinators of outlines/types/regex.py, and, from their tests   *)
(* and the design document, the parent Transformers generation loop with   *)
(* the regex logits processor, the Dottxt type adapter and the type        *)
(* classification predicates.                                              *)
(*                                                                         *)
(* One call is in progress at a time.  A call is an action; a generation   *)
(* call is followed by one DecodeStep per emitted token.                   *)
(***************************************************************************)
EXTENDS Integers, Sequences, FiniteSets, TLC

VARIABLES
    type_adapter,  \* TransformersVision.type_adapter: "vision" or "text"
    pc,            \* "idle", "decoding" (a generation loop is running) or "done"
    op,            \* the call in progress, or the last call: its name and arguments
    trace,         \* the collaborators the call has invoked so far, in order
    gen,           \* the generation loop: processor list, emitted tokens, shape inputs
    outcome        \* what the call gave its caller: nothing yet, a value or an exception

vars == <<type_adapter, pc, op, trace, gen, outcome>>

-----------------------------------------------------------------------------
(* Bounds of the model.                                                    *)

MaxBatch == 2       \* longest list of prompts or of images
MaxTupleLen == 3    \* longest tuple passed as model_input
MaxSamples == 2     \* largest num_return_sequences
MaxNewTokens == 3   \* largest max_new_tokens
MaxNumber == 2      \* largest repetition count given to exactly / between

-----------------------------------------------------------------------------
(* Python values passed as model_input.  A value has a kind (its type),    *)
(* items (the elements of a list, or the one atom of a scalar) and elems   *)
(* (the elements of a tuple).                                              *)

Scalar(kind, atom) == [kind |-> kind, items |-> <<atom>>, elems |-> <<>>]

ListOf(atom, n) == [kind |-> "list", items |-> [i \in 1..n |-> <<atom, i>>], elems |-> <<>>]

TupleOf(elems) == [kind |-> "tuple", items |-> <<>>, elems |-> elems]

StrPrompt == Scalar("str", <<"prompt", 0>>)

PilImage == Scalar("image", <<"image", 0>>)

IntValue == Scalar("int", <<"int", 0>>)

NoneValue == Scalar("none", <<"none", 0>>)

\* What a tuple may hold: a prompt, an image, a value that is neither a str
\* nor a list, and lists of prompts or of images of every length up to MaxBatch.
ElemValues ==
    {StrPrompt, PilImage, IntValue}
        \cup {ListOf("prompt", n) : n \in 0..MaxBatch}
        \cup {ListOf("image", n) : n \in 1..MaxBatch}

Tuples == UNION {{TupleOf(e) : e \in [1..n -> ElemValues]} : n \in 0..MaxTupleLen}

NonTuples == {StrPrompt, PilImage, IntValue, NoneValue} \cup {ListOf("prompt", n) : n \in 1..MaxBatch}

ModelInputs == Tuples \cup NonTuples

IsStr(v) == v.kind = "str"

IsList(v) == v.kind = "list"

IsTuple(v) == v.kind = "tuple"

-----------------------------------------------------------------------------
(* What a call gives its caller.                                           *)

NoValue == <<>>

Pending == [kind |-> "none", exc |-> "", msg |-> "", value |-> NoValue]

Raise(exc, msg) == [kind |-> "raised", exc |-> exc, msg |-> msg, value |-> NoValue]

Return(v) == [kind |-> "returned", exc |-> "", msg |-> "", value |-> v]

-----------------------------------------------------------------------------
(* TransformersVisionTypeAdapter.                                          *)

MsgNotAvailable == "The input type is not available."

MsgTwoElements == "The input must be a tuple of exactly 2 elements."

MsgSingleOrLists == "You must either provide a single prompt and a single image or a list of prompts and a list of images."

MsgNumberMatch == "The number of prompts must match the number of images."

\* format_list_input without the comparison of the two lengths.
format_list_input_any_length(model_input) ==
    IF Len(model_input.elems) # 2
    THEN Raise("TypeError", MsgTwoElements)
    ELSE LET prompts == model_input.elems[1]
             images == model_input.elems[2]
         IN  IF (IsStr(prompts) /\ IsList(images)) \/ (IsList(prompts) /\ ~IsList(images))
             THEN Raise("TypeError", MsgSingleOrLists)
             ELSE Return(<<prompts, images>>)

\* format_input.register(tuple): unpacking a tuple that has not exactly two
\* elements raises ValueError, which is turned into TypeError.
format_list_input(model_input) ==
    IF Len(model_input.elems) # 2
    THEN Raise("TypeError", MsgTwoElements)
    ELSE LET prompts == model_input.elems[1]
             images == model_input.elems[2]
         IN  IF (IsStr(prompts) /\ IsList(images)) \/ (IsList(prompts) /\ ~IsList(images))
             THEN Raise("TypeError", MsgSingleOrLists)
             ELSE IF IsList(prompts) /\ IsList(images)
                        /\ Len(prompts.items) # Len(images.items)
             THEN Raise("TypeError", MsgNumberMatch)
             ELSE Return(<<prompts, images>>)

\* The single-dispatch method: a tuple goes to format_list_input, every
\* other type to the base implementation, which raises.
format_input(model_input) ==
    IF IsTuple(model_input)
    THEN format_list_input(model_input)
    ELSE Raise("NotImplementedError", MsgNotAvailable)

-----------------------------------------------------------------------------
(* Output types.  None, or a RegexLogitsProcessor built from the regex of  *)
(* a Choice over literals; a literal is a sequence of characters.          *)

NoOutputType == [kind |-> "none", literals |-> {}]

ChoiceProcessor(literals) == [kind |-> "processor", literals |-> literals]

BarFoo == {<<"B", "a", "r">>, <<"F", "o", "o">>}

FoFoo == {<<"F", "o">>, <<"F", "o", "o">>}

OutputTypes == {NoOutputType, ChoiceProcessor(BarFoo), ChoiceProcessor(FoFoo)}

NoProcessorList == [kind |-> "none", procs |-> <<>>]

LogitsProcessorList(procs) == [kind |-> "LogitsProcessorList", procs |-> procs]

\* A value that is no logits processor (the adapter does not look).
NotAProcessor == [kind |-> "type", literals |-> {}]

AnyOutputTypes == OutputTypes \cup {NotAProcessor}

\* A format_output_type that wraps None as well.
format_output_type_wrap_all(output_type) == LogitsProcessorList(<<output_type>>)

\* TransformersVisionTypeAdapter.format_output_type
format_output_type(output_type) ==
    IF output_type # NoOutputType
    THEN LogitsProcessorList(<<output_type>>)
    ELSE NoProcessorList

-----------------------------------------------------------------------------
(* The automaton of a choice and its token transition index.  The states   *)
(* of the automaton are the prefixes of the literals, the start state is   *)
(* the empty prefix and the accepting states are the literals.             *)

IsPrefix(s, t) == Len(s) <= Len(t) /\ SubSeq(t, 1, Len(s)) = s

Reject == <<"reject">>

StartState == <<>>

Accepting(literals, state) == state \in literals

\* A state is live when an accepting state can be reached from it.
Live(literals, state) == \E l \in literals : IsPrefix(state, l)

\* The transition function, total: an undefined transition goes to the sink.
Delta(literals, state, symbol) ==
    IF state # Reject /\ Live(literals, Append(state, symbol))
    THEN Append(state, symbol)
    ELSE Reject

\* A token is walked symbol by symbol.
RECURSIVE WalkToken(_, _, _)
WalkToken(literals, state, token) ==
    IF token = <<>>
    THEN state
    ELSE WalkToken(literals, Delta(literals, state, Head(token)), Tail(token))

Eos == <<"</s>">>

Vocabulary == {<<"B">>, <<"a", "r">>, <<"F", "o">>, <<"o">>, <<"x">>}

\* The state reached by the tokens emitted so far.
RECURSIVE StateAfter(_, _)
StateAfter(literals, tokens) ==
    IF tokens = <<>>
    THEN StartState
    ELSE WalkToken(literals, StateAfter(literals, SubSeq(tokens, 1, Len(tokens) - 1)),
                   tokens[Len(tokens)])

\* A row that lets the end-of-sequence token through in every state.
PermissibleTokensEosAnywhere(literals, state) ==
    {t \in Vocabulary : WalkToken(literals, state, t) # Reject} \cup {Eos}

\* The row of the token transition index of a state: the tokens whose walk
\* ends in a live state; the end-of-sequence token where the state accepts.
PermissibleTokens(literals, state) ==
    {t \in Vocabulary : WalkToken(literals, state, t) # Reject}
        \cup (IF Accepting(literals, state) THEN {Eos} ELSE {})

\* The masking step: with no processor every token keeps its score; a
\* processor leaves only the permissible tokens of the current state.
Masked(logits_processor, tokens) ==
    IF logits_processor.kind = "none"
    THEN Vocabulary \cup {Eos}
    ELSE PermissibleTokens(logits_processor.procs[1].literals,
                           StateAfter(logits_processor.procs[1].literals, tokens))

\* tokenizer.decode of one row, special tokens skipped.
RECURSIVE DecodeTokens(_)
DecodeTokens(tokens) ==
    IF tokens = <<>>
    THEN <<>>
    ELSE (IF Head(tokens) = Eos THEN <<>> ELSE Head(tokens)) \o DecodeTokens(Tail(tokens))

-----------------------------------------------------------------------------
(* Shapes of the generated ids and of the decoded result.                  *)

\* Transformers._generate_output_seq: one row per prompt and per returned
\* sequence; a list of prompts with several sequences each is viewed in 3D.
GeneratedShape(prompts, num_return_sequences, length) ==
    LET batch_size == IF IsStr(prompts) THEN 1 ELSE Len(prompts.items)
    IN  IF num_return_sequences > 1 /\ IsList(prompts)
        THEN <<batch_size, num_return_sequences, length>>
        ELSE <<batch_size * num_return_sequences, length>>

\* torch.Tensor.squeeze(0): drops the first dimension when its size is 1.
Squeeze0(shape) == IF shape[1] = 1 THEN Tail(shape) ELSE shape

\* A squeeze that does not look at the type of the prompts.
SqueezeAlways(prompts, shape) == Squeeze0(shape)

\* generate: "if single str input, convert to a 1D output"
SqueezeSingle(prompts, shape) == IF IsStr(prompts) THEN Squeeze0(shape) ELSE shape

\* Transformers._decode_generation: a string for 1D ids, a list of strings
\* for 2D ids, a list of lists of strings for 3D ids.
DecodeGeneration(shape, text) ==
    IF Len(shape) = 1 THEN [depth |-> 0, outer |-> 0, inner |-> 0, text |-> text]
    ELSE IF Len(shape) = 2 THEN [depth |-> 1, outer |-> shape[1], inner |-> 0, text |-> text]
    ELSE [depth |-> 2, outer |-> shape[1], inner |-> shape[2], text |-> text]

\* The vision processor call: the collaborator batches a prompt with an
\* image, or as many prompts as images, and rejects anything else.
ProcessorAccepts(prompts, images) ==
    \/ prompts = StrPrompt /\ images = PilImage
    \/ /\ IsList(prompts) /\ IsList(images) /\ Len(prompts.items) >= 1
       /\ prompts = ListOf("prompt", Len(prompts.items))
       /\ images = ListOf("image", Len(prompts.items))

-----------------------------------------------------------------------------
(* Python values given as output types: a class, an instance of a class,   *)
(* a generic alias (origin[arg] : List[int], Annotated[int, ...],          *)
(* Literal[...], Union[...]) or a NewType over a supertype.                *)

PyClass(name) == [form |-> "class", cls |-> name, arg |-> ""]

PyInstance(cls) == [form |-> "instance", cls |-> cls, arg |-> ""]

PyAlias(origin, arg) == [form |-> "alias", cls |-> origin, arg |-> arg]

PyNewType(supertype) == [form |-> "newtype", cls |-> "UserId", arg |-> supertype]

PrimitiveNames == {"int", "float", "str", "bool"}

\* What the class statement made of a class: a dataclass, a TypedDict, a
\* pydantic BaseModel subclass, an Enum subclass, or nothing special.
ClassKind(name) ==
    CASE name = "SampleDataclass" -> "dataclass"
      [] name = "SampleTypedDict" -> "typeddict"
      [] name = "SamplePydanticModel" -> "basemodel"
      [] name = "SampleEnum" -> "enum"
      [] OTHER -> "plain"

\* An instance of a TypedDict is a dict, so it is PyInstance("dict").
PyValues ==
    {PyClass(n) : n \in PrimitiveNames \cup {"dict", "list", "SampleClass", "SampleDataclass",
                        "SampleTypedDict", "SamplePydanticModel", "SampleEnum", "SchemaBuilder"}}
        \cup {PyInstance(n) : n \in PrimitiveNames \cup {"dict", "list", "NoneType", "SampleClass",
                        "SampleDataclass", "SamplePydanticModel", "SampleEnum", "SchemaBuilder",
                        "Regex", "CFG", "JsonSchema"}}
        \cup {PyAlias(o, a) : o \in {"list", "dict", "Annotated"}, a \in PrimitiveNames}
        \cup {PyAlias(o, a) : o \in {"Literal", "Union"}, a \in {"int", "str"}}
        \cup {PyNewType(a) : a \in PrimitiveNames}

\* A test by issubclass: bool is a subclass of int.
IsPrimitiveSubclass(value, t) ==
    \/ value = PyClass(t)
    \/ t = "int" /\ value = PyClass("bool")
    \/ value.form = "alias" /\ value.cls = "Annotated" /\ value.arg = t
    \/ value.form = "newtype" /\ value.arg = t

\* value is t, or Annotated[t, ...], or a NewType whose supertype is t
IsPrimitive(value, t) ==
    \/ value = PyClass(t)
    \/ value.form = "alias" /\ value.cls = t
    \/ value.form = "alias" /\ value.cls = "Annotated" /\ value.arg = t
    \/ value.form = "newtype" /\ value.arg = t

is_int(value) == IsPrimitive(value, "int")

is_float(value) == IsPrimitive(value, "float")

is_str(value) == IsPrimitive(value, "str")

is_bool(value) == IsPrimitive(value, "bool")

is_native_dict(value) == value = PyClass("dict")

is_typing_dict(value) == value.form = "alias" /\ value.cls = "dict"

is_union(value) == value.form = "alias" /\ value.cls = "Union"

is_literal(value) == value.form = "alias" /\ value.cls = "Literal"

is_dataclass(value) == value.form = "class" /\ ClassKind(value.cls) = "dataclass"

is_typed_dict(value) == value.form = "class" /\ ClassKind(value.cls) = "typeddict"

is_pydantic_model(value) == value.form = "class" /\ ClassKind(value.cls) = "basemodel"

is_genson_schema_builder(value) == value.form = "instance" /\ value.cls = "SchemaBuilder"

is_enum(value) == value.form = "class" /\ ClassKind(value.cls) = "enum"

\* The predicates that hold of a value, by name.
Classification(value) ==
    {n \in {"is_int"} : is_int(value)}
        \cup {n \in {"is_float"} : is_float(value)}
        \cup {n \in {"is_str"} : is_str(value)}
        \cup {n \in {"is_bool"} : is_bool(value)}
        \cup {n \in {"is_native_dict"} : is_native_dict(value)}
        \cup {n \in {"is_typing_dict"} : is_typing_dict(value)}
        \cup {n \in {"is_union"} : is_union(value)}
        \cup {n \in {"is_literal"} : is_literal(value)}
        \cup {n \in {"is_dataclass"} : is_dataclass(value)}
        \cup {n \in {"is_typed_dict"} : is_typed_dict(value)}
        \cup {n \in {"is_pydantic_model"} : is_pydantic_model(value)}
        \cup {n \in {"is_genson_schema_builder"} : is_genson_schema_builder(value)}
        \cup {n \in {"is_enum"} : is_enum(value)}

-----------------------------------------------------------------------------
(* DottxtTypeAdapter.format_output_type                                    *)

MsgDottxtNone == "You must provide an output type. Dottxt only supports constrained generation."

MsgDottxtRegex == "Regex-based structured outputs will soon be available with Dottxt."

MsgDottxtCfg == "CFG-based structured outputs will soon be available with Dottxt."

\* getattr(output_type, "__name__", output_type), as text
TypeName(value) ==
    IF value.form \in {"class", "newtype"} THEN value.cls
    ELSE value.form \o ":" \o value.cls

\* (the message puts the name between backquotes, left out here)
MsgDottxtNotSupported(value) == "The type " \o TypeName(value) \o " is not supported by Dottxt."

\* An adapter whose last error does not say which type it refused.
dottxt_format_output_type_unnamed(output_type) ==
    IF output_type = PyInstance("NoneType") THEN Raise("TypeError", MsgDottxtNone)
    ELSE IF output_type = PyInstance("Regex") THEN Raise("TypeError", MsgDottxtRegex)
    ELSE IF output_type = PyInstance("CFG") THEN Raise("TypeError", MsgDottxtCfg)
    ELSE IF \/ output_type = PyInstance("JsonSchema")
            \/ is_dataclass(output_type)
            \/ is_typed_dict(output_type)
            \/ is_pydantic_model(output_type)
            \/ is_genson_schema_builder(output_type)
    THEN Return("json schema of " \o output_type.cls)
    ELSE Raise("TypeError", "The type is not supported by Dottxt.")

dottxt_format_output_type(output_type) ==
    IF output_type = PyInstance("NoneType") THEN Raise("TypeError", MsgDottxtNone)
    ELSE IF output_type = PyInstance("Regex") THEN Raise("TypeError", MsgDottxtRegex)
    ELSE IF output_type = PyInstance("CFG") THEN Raise("TypeError", MsgDottxtCfg)
    ELSE IF \/ output_type = PyInstance("JsonSchema")
            \/ is_dataclass(output_type)
            \/ is_typed_dict(output_type)
            \/ is_pydantic_model(output_type)
            \/ is_genson_schema_builder(output_type)
    THEN Return("json schema of " \o output_type.cls)
    ELSE Raise("TypeError", MsgDottxtNotSupported(output_type))

-----------------------------------------------------------------------------
(* outlines/types/regex.py: the pattern combinators.                       *)

Patterns == {"", "a", "[0-9]"}

Numbers == (0 - 1)..MaxNumber

one_or_more(pattern) == Return("(" \o pattern \o ")+")

zero_or_more(pattern) == Return("(" \o pattern \o ")*")

optional(pattern) == Return("(" \o pattern \o ")?")

\* An exactly that builds the counted repetition.
exactly_repeat(number, pattern) == Return("(" \o pattern \o "){" \o ToString(number) \o "}")

exactly(number, pattern) == Raise("NotImplementedError", "")

between(min, max, pattern) == Raise("NotImplementedError", "")

-----------------------------------------------------------------------------
(* The calls.                                                              *)

NoInput == NoneValue

NoArg == <<>>

Call(name, model_input, output_type, arg) ==
    [name |-> name, model_input |-> model_input, output_type |-> output_type, arg |-> arg]

NoGen == [running |-> FALSE]

StartGen(prompts, logits_processor, num_return_sequences, max_new_tokens) ==
    [running |-> TRUE,
     prompts |-> prompts,
     logits_processor |-> logits_processor,
     num_return_sequences |-> num_return_sequences,
     max_new_tokens |-> max_new_tokens,
     tokens |-> <<>>,
     masked |-> 0,
     stop |-> "none"]

\* A constructor that leaves the parent's text adapter in place.
InitTypeAdapterParent == "text"

\* The state after TransformersVision.__init__: the parent's constructor has
\* run and the type adapter has been replaced by the vision adapter.
InitTypeAdapter == "vision"

Init ==
    /\ type_adapter = InitTypeAdapter
    /\ pc = "idle"
    /\ op = Call("none", NoInput, NoOutputType, NoArg)
    /\ trace = <<>>
    /\ gen = NoGen
    /\ outcome = Pending

\* Transformers type adapter of the parent model: a prompt or a list of prompts.
text_format_input(model_input) ==
    IF IsStr(model_input) \/ IsList(model_input)
    THEN Return(model_input)
    ELSE Raise("NotImplementedError", MsgNotAvailable)

\* A generate that catches what format_input raises and raises ValueError.
AdapterFormatInputConverted(adapter, model_input) ==
    LET r == format_input(model_input)
    IN  IF r.kind = "raised" THEN Raise("ValueError", r.msg) ELSE r

\* self.type_adapter.format_input of the vision model, then the unpacking
\* "prompts, images = ..." of generate.
AdapterFormatInput(adapter, model_input) ==
    IF adapter = "vision"
    THEN format_input(model_input)
    ELSE LET r == text_format_input(model_input)
         IN  IF r.kind = "raised" THEN r
             ELSE IF IsList(r.value) /\ Len(r.value.items) = 2
             THEN Return(<<StrPrompt, StrPrompt>>)
             ELSE Raise("ValueError", "unpack")

\* A direct call of TransformersVisionTypeAdapter.format_input.
FormatInput ==
    /\ pc = "idle"
    /\ \E model_input \in ModelInputs :
        /\ op' = Call("format_input", model_input, NoOutputType, NoArg)
        /\ trace' = <<"format_input">>
        /\ outcome' = format_input(model_input)
        /\ pc' = "done"
        /\ UNCHANGED <<type_adapter, gen>>

\* The logits processor list generate hands to _generate_output_seq: none,
\* the output type is not read.
GenerateLogitsProcessor(output_type) == NoProcessorList

\* TransformersVision.generate up to the start of the generation loop.
VisionGenerate ==
    /\ pc = "idle"
    /\ \E model_input \in ModelInputs, output_type \in OutputTypes :
        /\ op' = Call("vision.generate", model_input, output_type, NoArg)
        /\ UNCHANGED type_adapter
        /\ LET fmt == AdapterFormatInput(type_adapter, model_input)
           IN  IF fmt.kind = "raised"
               THEN /\ trace' = <<"format_input">>
                    /\ outcome' = fmt
                    /\ pc' = "done"
                    /\ gen' = NoGen
               ELSE IF ~ProcessorAccepts(fmt.value[1], fmt.value[2])
               THEN /\ trace' = <<"format_input", "processor">>
                    /\ outcome' = Raise("ValueError", "processor")
                    /\ pc' = "done"
                    /\ gen' = NoGen
               ELSE \E k \in 1..MaxSamples, m \in 1..MaxNewTokens :
                    /\ trace' = <<"format_input", "processor", "generate">>
                    /\ outcome' = Pending
                    /\ pc' = "decoding"
                    /\ gen' = StartGen(fmt.value[1], GenerateLogitsProcessor(output_type), k, m)

\* One step of the generation loop: the scores are masked, a token with a
\* score left is sampled and emitted.  The loop stops at the end-of-sequence
\* token or when max_new_tokens tokens are emitted; generate then squeezes,
\* decodes and returns.
DecodeStep ==
    /\ pc = "decoding"
    /\ UNCHANGED <<type_adapter, op>>
    /\ LET allowed == Masked(gen.logits_processor, gen.tokens)
       IN  IF allowed = {}
           THEN /\ outcome' = Raise("NoValidContinuationError", "")
                /\ pc' = "done"
                /\ gen' = [gen EXCEPT !.stop = "error"]
                /\ UNCHANGED trace
           ELSE \E token \in allowed :
                LET tokens == Append(gen.tokens, token)
                    stop == IF token = Eos THEN "eos"
                            ELSE IF Len(tokens) >= gen.max_new_tokens THEN "length"
                            ELSE "none"
                    masked == IF gen.logits_processor.kind = "none"
                              THEN gen.masked ELSE gen.masked + 1
                    shape == GeneratedShape(gen.prompts, gen.num_return_sequences, Len(tokens))
                IN  /\ gen' = [gen EXCEPT !.tokens = tokens, !.stop = stop, !.masked = masked]
                    /\ IF stop = "none"
                       THEN UNCHANGED <<pc, outcome, trace>>
                       ELSE /\ pc' = "done"
                            /\ trace' = Append(trace, "decode")
                            /\ outcome' = Return(DecodeGeneration(
                                              SqueezeSingle(gen.prompts, shape),
                                              DecodeTokens(tokens)))

MsgStreaming == "Streaming is not implemented for TransformersVision models."

\* A stream that validates its input before it gives up.
stream_validating(model_input, output_type) ==
    LET fmt == format_input(model_input)
    IN  [outcome |-> IF fmt.kind = "raised" THEN fmt ELSE Raise("NotImplementedError", MsgStreaming),
         trace |-> <<"format_input">>]

\* TransformersVision.stream: the outcome and the collaborators invoked.
stream(model_input, output_type) ==
    [outcome |-> Raise("NotImplementedError", MsgStreaming), trace |-> <<>>]

VisionStream ==
    /\ pc = "idle"
    /\ \E model_input \in ModelInputs, output_type \in OutputTypes :
        /\ op' = Call("vision.stream", model_input, output_type, NoArg)
        /\ trace' = stream(model_input, output_type).trace
        /\ outcome' = stream(model_input, output_type).outcome
        /\ pc' = "done"
        /\ UNCHANGED <<type_adapter, gen>>

\* The logits processor list of the parent model's generate: its type
\* adapter wraps the output type, and the list goes to the generation loop.
TransformersLogitsProcessor(output_type) == format_output_type(output_type)

\* The parent's tokenizer call: a prompt or a non-empty list of prompts.
TokenizerAccepts(prompts) ==
    \/ prompts = StrPrompt
    \/ IsList(prompts) /\ Len(prompts.items) >= 1 /\ prompts = ListOf("prompt", Len(prompts.items))

\* Transformers.generate, of the parent model, up to the start of the
\* generation loop.
TransformersGenerate ==
    /\ pc = "idle"
    /\ \E model_input \in NonTuples \cup {TupleOf(<<StrPrompt, PilImage>>)},
          output_type \in OutputTypes :
        /\ op' = Call("transformers.generate", model_input, output_type, NoArg)
        /\ UNCHANGED type_adapter
        /\ LET fmt == text_format_input(model_input)
           IN  IF fmt.kind = "raised"
               THEN /\ trace' = <<"format_input">>
                    /\ outcome' = fmt
                    /\ pc' = "done"
                    /\ gen' = NoGen
               ELSE IF ~TokenizerAccepts(fmt.value)
               THEN /\ trace' = <<"format_input", "tokenizer">>
                    /\ outcome' = Raise("ValueError", "tokenizer")
                    /\ pc' = "done"
                    /\ gen' = NoGen
               ELSE \E k \in 1..MaxSamples, m \in 1..MaxNewTokens :
                    /\ trace' = <<"format_input", "tokenizer", "format_output_type", "generate">>
                    /\ outcome' = Pending
                    /\ pc' = "decoding"
                    /\ gen' = StartGen(fmt.value, TransformersLogitsProcessor(output_type), k, m)

\* A call of DottxtTypeAdapter.format_output_type.
DottxtFormatOutputType ==
    /\ pc = "idle"
    /\ \E value \in PyValues :
        /\ op' = Call("dottxt.format_output_type", NoInput, NoOutputType, value)
        /\ trace' = <<>>
        /\ outcome' = dottxt_format_output_type(value)
        /\ pc' = "done"
        /\ UNCHANGED <<type_adapter, gen>>

\* The type predicates of outlines.types.utils, applied to one value.
Classify ==
    /\ pc = "idle"
    /\ \E value \in PyValues :
        /\ op' = Call("classify", NoInput, NoOutputType, value)
        /\ trace' = <<>>
        /\ outcome' = Return(Classification(value))
        /\ pc' = "done"
        /\ UNCHANGED <<type_adapter, gen>>

OneOrMore ==
    /\ pc = "idle"
    /\ \E p \in Patterns :
        /\ op' = Call("one_or_more", NoInput, NoOutputType, <<p>>)
        /\ trace' = <<>>
        /\ outcome' = one_or_more(p)
        /\ pc' = "done"
        /\ UNCHANGED <<type_adapter, gen>>

ZeroOrMore ==
    /\ pc = "idle"
    /\ \E p \in Patterns :
        /\ op' = Call("zero_or_more", NoInput, NoOutputType, <<p>>)
        /\ trace' = <<>>
        /\ outcome' = zero_or_more(p)
        /\ pc' = "done"
        /\ UNCHANGED <<type_adapter, gen>>

Optional ==
    /\ pc = "idle"
    /\ \E p \in Patterns :
        /\ op' = Call("optional", NoInput, NoOutputType, <<p>>)
        /\ trace' = <<>>
        /\ outcome' = optional(p)
        /\ pc' = "done"
        /\ UNCHANGED <<type_adapter, gen>>

Exactly ==
    /\ pc = "idle"
    /\ \E n \in Numbers, p \in Patterns :
        /\ op' = Call("exactly", NoInput, NoOutputType, <<n, p>>)
        /\ trace' = <<>>
        /\ outcome' = exactly(n, p)
        /\ pc' = "done"
        /\ UNCHANGED <<type_adapter, gen>>

Between ==
    /\ pc = "idle"
    /\ \E lo \in Numbers, hi \in Numbers, p \in Patterns :
        /\ op' = Call("between", NoInput, NoOutputType, <<lo, hi, p>>)
        /\ trace' = <<>>
        /\ outcome' = between(lo, hi, p)
        /\ pc' = "done"
        /\ UNCHANGED <<type_adapter, gen>>

\* A direct call of TransformersVisionTypeAdapter.format_output_type.
FormatOutputType ==
    /\ pc = "idle"
    /\ \E output_type \in AnyOutputTypes :
        /\ op' = Call("format_output_type", NoInput, output_type, NoArg)
        /\ trace' = <<"format_output_type">>
        /\ outcome' = Return(format_output_type(output_type))
        /\ pc' = "done"
        /\ UNCHANGED <<type_adapter, gen>>

\* The caller has the outcome; the model is ready for the next call.
Finish ==
    /\ pc = "done"
    /\ pc' = "idle"
    /\ op' = Call("none", NoInput, NoOutputType, NoArg)
    /\ trace' = <<>>
    /\ gen' = NoGen
    /\ outcome' = Pending
    /\ UNCHANGED type_adapter

Next ==
    \/ FormatInput
    \/ FormatOutputType
    \/ VisionGenerate
    \/ DecodeStep
    \/ VisionStream
    \/ TransformersGenerate
    \/ DottxtFormatOutputType
    \/ Classify
    \/ OneOrMore
    \/ ZeroOrMore
    \/ Optional
    \/ Exactly
    \/ Between
    \/ Finish

Spec == Init /\ [][Next]_vars

-----------------------------------------------------------------------------
(* The claims.                                                             *)

IsVisionGenerate == op.name = "vision.generate"

Returned == outcome.kind = "returned"

Raised(exc) == outcome.kind = "raised" /\ outcome.exc = exc /\ outcome.value = NoValue

\* C1: whenever TransformersVision.generate returns for a call whose
\* output_type is a logits processor, the processor was applied at every
\* decoding step and the returned text is in the language it enforces.
C1_VisionGenerateConstrained ==
    (IsVisionGenerate /\ op.output_type # NoOutputType /\ Returned)
        => /\ gen.logits_processor = LogitsProcessorList(<<op.output_type>>)
           /\ gen.masked = Len(gen.tokens)
           /\ outcome.value.text \in op.output_type.literals

WellFormedPair(model_input) ==
    /\ IsTuple(model_input)
    /\ Len(model_input.elems) = 2
    /\ LET prompts == model_input.elems[1]
           images == model_input.elems[2]
       IN  \/ IsStr(prompts) /\ ~IsList(images)
           \/ IsList(prompts) /\ IsList(images) /\ Len(prompts.items) = Len(images.items)

\* C2: format_input returns a value only for a 2-element tuple that is a
\* prompt string with a non-list image, or a list of prompts with a list of
\* as many images; every other input raises.
C2_FormatInputReturnsOnlyWellFormed ==
    op.name = "format_input"
        => /\ Returned => WellFormedPair(op.model_input)
           /\ ~WellFormedPair(op.model_input) => outcome.kind = "raised"

\* C3: the type adapter of the vision model is the vision adapter in every
\* state, and generate raises NotImplementedError for every model_input
\* that is not a tuple, a plain prompt string included.
C3_NonTupleNotImplemented ==
    /\ type_adapter = "vision"
    /\ (IsVisionGenerate /\ ~IsTuple(op.model_input))
           => /\ pc = "done"
              /\ Raised("NotImplementedError")

C3_Witness ==
    /\ IsVisionGenerate
    /\ op.model_input = StrPrompt
    /\ Raised("NotImplementedError")

ExpectedResultShape(prompts, k) ==
    IF IsStr(prompts)
    THEN IF k = 1 THEN [depth |-> 0, outer |-> 0, inner |-> 0]
         ELSE [depth |-> 1, outer |-> k, inner |-> 0]
    ELSE IF k = 1 THEN [depth |-> 1, outer |-> Len(prompts.items), inner |-> 0]
         ELSE [depth |-> 2, outer |-> Len(prompts.items), inner |-> k]

ResultShape(value) == [depth |-> value.depth, outer |-> value.outer, inner |-> value.inner]

\* C4: the result of TransformersVision.generate is a string for a prompt
\* string with one returned sequence, a list of k strings for a prompt
\* string with k > 1 sequences, and for a list of n prompts a list of n
\* results, each a string (one sequence) or a list of k strings (k > 1).
C4_ResultShapeFollowsInput ==
    (IsVisionGenerate /\ Returned)
        => ResultShape(outcome.value)
               = ExpectedResultShape(op.model_input.elems[1], gen.num_return_sequences)

C4_Witness ==
    /\ IsVisionGenerate
    /\ Returned
    /\ op.model_input.elems[1] = ListOf("prompt", 2)
    /\ gen.num_return_sequences = 2
    /\ outcome.value.depth = 2

IsChoiceGeneration ==
    /\ op.name = "transformers.generate"
    /\ op.output_type # NoOutputType
    /\ pc \in {"decoding", "done"}
    /\ gen # NoGen

PrefixOfLiteral(text, literals) == \E l \in literals : IsPrefix(text, l)

IsDottxtCall == op.name = "dottxt.format_output_type"

\* C6: DottxtTypeAdapter.format_output_type raises TypeError, and returns
\* nothing, for None, for a bare primitive type and for a regex or a CFG
\* output type; for str and for int the message names the type.
C6_DottxtRejects ==
    IsDottxtCall
        => /\ (\/ op.arg \in {PyInstance("NoneType"), PyInstance("Regex"), PyInstance("CFG")}
               \/ op.arg \in {PyClass(t) : t \in PrimitiveNames})
                  => Raised("TypeError")
           /\ op.arg = PyClass("str") => outcome.msg = "The type str is not supported by Dottxt."
           /\ op.arg = PyClass("int") => outcome.msg = "The type int is not supported by Dottxt."

C6_Witness ==
    /\ IsDottxtCall
    /\ op.arg = PyClass("str")
    /\ Raised("TypeError")
    /\ outcome.msg = "The type str is not supported by Dottxt."

PrimitivePredicates == {"is_int", "is_float", "is_str", "is_bool"}

StructPredicates == {"is_dataclass", "is_typed_dict", "is_pydantic_model", "is_genson_schema_builder"}

Exclusive(found, a, b) == ~(a \in found /\ b \in found)

C8_RepetitionNotImplemented ==
    op.name \in {"exactly", "between"} => Raised("NotImplementedError")

C8_Witness ==
    /\ op.name = "exactly"
    /\ op.arg = <<2, "[0-9]">>
    /\ Raised("NotImplementedError")

\* C9: TransformersVision.stream raises NotImplementedError whatever its
\* arguments; the input is not validated, and neither the processor nor the
\* model is invoked.
C9_StreamNotImplemented ==
    op.name = "vision.stream"
        => /\ pc = "done"
           /\ Raised("NotImplementedError")
           /\ trace = <<>>
           /\ gen = NoGen

C9_Witness ==
    /\ op.name = "vision.stream"
    /\ op.model_input = TupleOf(<<StrPrompt>>)
    /\ op.output_type = ChoiceProcessor(BarFoo)
    /\ Raised("NotImplementedError")

MultiplicityDisagrees(model_input) ==
    \/ Len(model_input.elems) # 2
    \/ LET prompts == model_input.elems[1]
           images == model_input.elems[2]
       IN  \/ IsStr(prompts) /\ IsList(images)
           \/ IsList(prompts) /\ ~IsList(images)
           \/ IsList(prompts) /\ IsList(images) /\ Len(prompts.items) # Len(images.items)

EqualLengthLists(model_input) ==
    /\ Len(model_input.elems) = 2
    /\ IsList(model_input.elems[1])
    /\ IsList(model_input.elems[2])
    /\ Len(model_input.elems[1].items) = Len(model_input.elems[2].items)

\* C10: format_input raises TypeError, and returns nothing, for a tuple
\* that has not exactly 2 elements, that pairs a prompt string with a list
\* of images or a list of prompts with a non-list image, or whose two lists
\* differ in length; two lists of equal length are returned as they came.
C10_MultiplicityChecked ==
    (op.name = "format_input" /\ IsTuple(op.model_input))
        => /\ MultiplicityDisagrees(op.model_input) => Raised("TypeError")
           /\ EqualLengthLists(op.model_input)
                  => outcome = Return(<<op.model_input.elems[1], op.model_input.elems[2]>>)

C10_Witness ==
    /\ op.name = "format_input"
    /\ op.model_input = TupleOf(<<ListOf("prompt", 2), ListOf("image", 1)>>)
    /\ Raised("TypeError")
    /\ outcome.msg = MsgNumberMatch

\* C11: whenever format_input raises for the model_input of
\* TransformersVision.generate, the call is over with exactly that exception
\* (same type, same message), format_input is the only step it took, and
\* neither the processor, nor the generation, nor the decoding has run.
C11_ValidationBeforeBackend ==
    (IsVisionGenerate /\ format_input(op.model_input).kind = "raised")
        => /\ pc = "done"
           /\ outcome = format_input(op.model_input)
           /\ outcome.exc = (IF IsTuple(op.model_input) THEN "TypeError" ELSE "NotImplementedError")
           /\ trace = <<"format_input">>
           /\ gen = NoGen

C11_Witness ==
    /\ IsVisionGenerate
    /\ op.model_input = TupleOf(<<ListOf("prompt", 1), ListOf("image", 2)>>)
    /\ op.output_type = ChoiceProcessor(BarFoo)
    /\ Raised("TypeError")
    /\ outcome.msg = MsgNumberMatch
    /\ trace = <<"format_input">>

\* C12: format_output_type returns None exactly when output_type is None;
\* for every other output_type it returns a logits processor list of
\* exactly one element, and that element is the output_type it was given.
C12_OutputTypeWrappedOnce ==
    op.name = "format_output_type"
        => /\ Returned
           /\ (outcome.value = NoProcessorList) <=> (op.output_type = NoOutputType)
           /\ op.output_type # NoOutputType
                  => /\ outcome.value.kind = "LogitsProcessorList"
                     /\ Len(outcome.value.procs) = 1
                     /\ outcome.value.procs[1] = op.output_type

C12_Witness ==
    /\ op.name = "format_output_type"
    /\ op.output_type = ChoiceProcessor(FoFoo)
    /\ Returned
    /\ outcome.value.procs = <<ChoiceProcessor(FoFoo)>>

====
